---------------------------- MODULE Spec2Model ----------------------------
(***************************************************************************)
(* Model of the indexed treap of wagnerf42/itreap (src/src/node.rs,        *)
(* src/src/treap.rs).  A Node is a value: a Leaf holding a block of        *)
(* elements, or an Inner node holding a priority, a cached size and two    *)
(* children.  Every public operation of ITreap is one action; a call ends  *)
(* normally, with a panic (the structure stays as the unwinding left it),  *)
(* or with the abort of replace_with_or_abort (the process ends).          *)
(*                                                                         *)
(* BLOCK_SIZE (1000 in the source) and u64::MAX are scaled down so that    *)
(* leaf splits and the sentinel priority of leaves are reached; usize      *)
(* arithmetic never overflows at these sizes.  The iterator of between()   *)
(* is lazy in the source and is run to its end here.                       *)
(*                                                                         *)
(* Spec      from_iter or new(), then insert/push (any index up to one     *)
(*           past len()), observed by iter() and len()                     *)
(* SpecNew   the same on a structure created by new()                      *)
(* SpecRead  from_iter or new(), push and inserts past the end, read by    *)
(*           index, index_mut, between, iter and len                       *)
(* SpecPush  0, 1, 2, ... pushed onto new(), up to 10 * BLOCK_SIZE         *)
(* SpecRotate  Node::rotate applied once, in either direction, to a small *)
(*           Inner node                                                    *)
(***************************************************************************)
EXTENDS Integers, Sequences, FiniteSets, TLC

\* node.rs:3  (1000 in the source, scaled)
BLOCK_SIZE == 4
\* node.rs:4, node.rs:5
LEFT == 0
RIGHT == 1
\* std::u64::MAX of node.rs:54, scaled: priorities are 0..U64_MAX
U64_MAX == 2
\* the most elements a structure is grown to by insert/push
MaxLen == 7
\* the longest input over Values handed to from_iter
MaxBuild == 4
\* the longest input 0..n handed to from_iter
MaxCollect == 14

Priorities == 0..U64_MAX
\* the element type C
Values == {0, 1}

Min(a, b) == IF a <= b THEN a ELSE b
Max(a, b) == IF a >= b THEN a ELSE b

\* Option<T>
None == <<>>
Some(x) == <<x>>

\* outcomes of a call
OK == "ok"
PANIC == "panic"
ABORT == "abort"

-----------------------------------------------------------------------------
(* enum Node<C>, node.rs:9-12 *)
Leaf(block) == [kind |-> "Leaf", block |-> block]
Inner(priority, size, children) ==
    [kind |-> "Inner", priority |-> priority, size |-> size, children |-> children]

\* children[direction], directions being 0 and 1
Child(node, direction) == node.children[direction + 1]

\* node.rs:99-104
is_leaf(node) == node.kind = "Leaf"

\* node.rs:105-110
len(node) == IF is_leaf(node) THEN Len(node.block) ELSE node.size

\* node.rs:52-57
priority(node) == IF is_leaf(node) THEN U64_MAX ELSE node.priority

\* Vec::insert(index, element) for index <= len
VecInsert(block, index, element) ==
    SubSeq(block, 1, index) \o <<element>> \o SubSeq(block, index + 1, Len(block))

\* Vec::split_off(at): <<what stays, what is returned>>
VecSplitOff(block, at) == <<SubSeq(block, 1, at), SubSeq(block, at + 1, Len(block))>>

\* Vec::get(index)
VecGet(block, index) == IF index < Len(block) THEN Some(block[index + 1]) ELSE None

\* mutant of divide: the block split one element before its middle
divide_uneven(node, rnd) ==
    LET size == Len(node.block)
        halves == VecSplitOff(node.block, (size \div 2) - 1)
    IN Inner(rnd, size, <<Leaf(halves[1]), Leaf(halves[2])>>)

\* node.rs:81-98; rnd is the value random() returns
divide(node, rnd) ==
    LET size == Len(node.block)
        halves == VecSplitOff(node.block, size \div 2)
    IN Inner(rnd, size, <<Leaf(halves[1]), Leaf(halves[2])>>)

\* node.rs:42-51, for an Inner node: <<priority, children>>
extract_content(node, direction) ==
    IF direction = RIGHT
    THEN <<node.priority, <<node.children[2], node.children[1]>>>>
    ELSE <<node.priority, node.children>>

\* node.rs:26-41.  The closure runs under replace_with_or_abort: a panic in it
\* (extract_content on a Leaf, the assert) aborts the process.
rotate(node, direction) ==
    LET own == extract_content(node, direction)
        self_priority == own[1]
        n1 == own[2][1]
        n2 == own[2][2]
    IN IF is_leaf(n2)
       THEN [node |-> node, outcome |-> ABORT]
       ELSE LET sub == extract_content(n2, direction)
                n2_priority == sub[1]
                n3 == sub[2][1]
                n4 == sub[2][2]
                new_self_size == len(n1) + len(n3)
                new_self == Inner(self_priority, new_self_size, <<n1, n3>>)
                new_n2_size == new_self_size + len(n4)
                new_n2 == Inner(n2_priority, new_n2_size, <<new_self, n4>>)
            IN IF self_priority <= n2_priority
               THEN [node |-> new_n2, outcome |-> OK]
               ELSE [node |-> node, outcome |-> ABORT]

\* mutant of needs_rotation: the comparison turned around
needs_rotation_flipped(child, self) == priority(child) < priority(self)

\* node.rs:75: the test that decides whether to rotate after the recursive insert
needs_rotation(child, self) == priority(child) > priority(self)

\* node.rs:69: which child an insertion at index descends into
insert_direction(left_size, index) == IF left_size >= index THEN LEFT ELSE RIGHT

\* node.rs:58-80.  Returns the node as the call leaves it and the outcome.
\* rnd is the value random() returns if the call divides a leaf (a call
\* divides at most one leaf: the halves hold fewer than BLOCK_SIZE elements).
RECURSIVE insert(_, _, _, _)
insert(node, index, element, rnd) ==
    LET self == IF is_leaf(node) /\ len(node) = BLOCK_SIZE THEN divide(node, rnd) ELSE node
    IN IF is_leaf(self)
       THEN IF index > Len(self.block)
            THEN [node |-> self, outcome |-> PANIC]
            ELSE [node |-> Leaf(VecInsert(self.block, index, element)), outcome |-> OK]
       ELSE LET size == self.size + 1
                left_size == len(Child(self, LEFT))
                direction == insert_direction(left_size, index)
                remaining_index == IF direction = LEFT THEN index ELSE index - left_size
                r == insert(Child(self, direction), remaining_index, element, rnd)
                grown == Inner(self.priority, size,
                               [self.children EXCEPT ![direction + 1] = r.node])
            IN IF r.outcome # OK
               THEN [node |-> grown, outcome |-> r.outcome]
               ELSE IF needs_rotation(r.node, grown)
                    THEN rotate(grown, 1 - direction)
                    ELSE [node |-> grown, outcome |-> OK]

\* node.rs:116: which child a lookup of index descends into
get_direction(left_size, index) == IF left_size >= index THEN LEFT ELSE RIGHT

\* mutant of get: an index past the end of a block truncated to its last element
RECURSIVE get_clamped(_, _)
get_clamped(node, index) ==
    IF is_leaf(node)
    THEN IF node.block = <<>>
         THEN None
         ELSE Some(node.block[Min(index, Len(node.block) - 1) + 1])
    ELSE LET left_size == len(Child(node, LEFT))
         IN IF get_direction(left_size, index) = LEFT
            THEN get_clamped(Child(node, LEFT), index)
            ELSE get_clamped(Child(node, RIGHT), index - left_size)

\* node.rs:111-123
RECURSIVE get(_, _)
get(node, index) ==
    IF is_leaf(node)
    THEN VecGet(node.block, index)
    ELSE LET left_size == len(Child(node, LEFT))
         IN IF get_direction(left_size, index) = LEFT
            THEN get(Child(node, LEFT), index)
            ELSE get(Child(node, RIGHT), index - left_size)

\* node.rs:124-136
RECURSIVE get_mut(_, _)
get_mut(node, index) ==
    IF is_leaf(node)
    THEN VecGet(node.block, index)
    ELSE LET left_size == len(Child(node, LEFT))
         IN IF get_direction(left_size, index) = LEFT
            THEN get_mut(Child(node, LEFT), index)
            ELSE get_mut(Child(node, RIGHT), index - left_size)

\* node.rs:15-25; father is None or Some(node)
RECURSIVE is_valid(_, _)
is_valid(node, father) ==
    IF is_leaf(node)
    THEN len(node) > 0 \/ father = None
    ELSE /\ (father = None \/ priority(node) <= priority(father[1]))
         /\ \A d \in {LEFT, RIGHT} : is_valid(Child(node, d), Some(node))

-----------------------------------------------------------------------------
(* treap.rs *)

\* std::ops::Range<usize>
Range(start, end) == [start |-> start, end |-> end]
\* Range::is_empty
RangeIsEmpty(r) == ~(r.start < r.end)

\* treap.rs:218-220
intersect_ranges(r1, r2) == Range(Max(r1.start, r2.start), Min(r1.end, r2.end))

\* &block[r]: None stands for the slice-index panic
Slice(block, r) ==
    IF r.start < 0 \/ r.start > r.end \/ r.end > Len(block)
    THEN None
    ELSE Some(SubSeq(block, r.start + 1, r.end))

\* mutant of push_children: the left child pushed before the right one
push_children_left_first(stack, node, node_range, selection) ==
    LET left == Child(node, LEFT)
        right == Child(node, RIGHT)
        right_start == node_range.start + len(left)
        right_range == Range(right_start, node_range.end)
        left_range == Range(node_range.start, right_start)
        with_left == IF ~RangeIsEmpty(intersect_ranges(left_range, selection))
                     THEN Append(stack, <<left, left_range>>)
                     ELSE stack
    IN IF ~RangeIsEmpty(intersect_ranges(right_range, selection))
       THEN Append(with_left, <<right, right_range>>)
       ELSE with_left

\* treap.rs:114-119: the entries an Inner node leaves on the stack, the right
\* child pushed before the left one
push_children(stack, node, node_range, selection) ==
    LET left == Child(node, LEFT)
        right == Child(node, RIGHT)
        right_start == node_range.start + len(left)
        right_range == Range(right_start, node_range.end)
        left_range == Range(node_range.start, right_start)
        with_right == IF ~RangeIsEmpty(intersect_ranges(right_range, selection))
                      THEN Append(stack, <<right, right_range>>)
                      ELSE stack
    IN IF ~RangeIsEmpty(intersect_ranges(left_range, selection))
       THEN Append(with_right, <<left, left_range>>)
       ELSE with_right

\* treap.rs:106-142: the iterator run to its end.  remaining_nodes is the
\* stack (top last), yielded what next() has returned so far.
RECURSIVE between_loop(_, _, _)
between_loop(remaining_nodes, selection, yielded) ==
    IF remaining_nodes = <<>>
    THEN [out |-> yielded, outcome |-> OK]
    ELSE LET l == Len(remaining_nodes)
             next_node == remaining_nodes[l][1]
             next_node_range == remaining_nodes[l][2]
             popped == SubSeq(remaining_nodes, 1, l - 1)
         IN IF ~is_leaf(next_node)
            THEN between_loop(push_children(popped, next_node, next_node_range, selection),
                              selection, yielded)
            ELSE LET selected == intersect_ranges(next_node_range, selection)
                     retained_elements == Range(selected.start - next_node_range.start,
                                                selected.end - next_node_range.start)
                     slice == Slice(next_node.block, retained_elements)
                 IN IF slice = None
                    THEN [out |-> yielded, outcome |-> PANIC]
                    ELSE between_loop(popped, selection, yielded \o slice[1])

\* treap.rs:97-143
between(root_node, selection) ==
    LET whole == Range(0, len(root_node))
        remaining_nodes == IF ~RangeIsEmpty(intersect_ranges(whole, selection))
                           THEN << <<root_node, whole>> >>
                           ELSE <<>>
    IN between_loop(remaining_nodes, selection, <<>>)

\* treap.rs:83-85
iter(root_node) == between(root_node, Range(0, len(root_node)))

\* treap.rs:29-33
new == Leaf(<<>>)

\* treap.rs:78-80
treap_len(root_node) == len(root_node)

\* itertools chunks(size): consecutive groups of size elements, the last one shorter
RECURSIVE chunks(_, _)
chunks(s, size) ==
    IF s = <<>> THEN <<>>
    ELSE IF Len(s) <= size THEN <<s>>
    ELSE <<SubSeq(s, 1, size)>> \o chunks(SubSeq(s, size + 1, Len(s)), size)

\* mutant of same_size: the top of the stack compared with itself
same_size_self(a, b) == len(a) = len(a)

\* treap.rs:168: the test that merges the two nodes on top of the stack
same_size(a, b) == len(a) = len(b)

\* mutant of merge_loop: the two top nodes merged at most once per chunk
merge_once(tree) ==
    LET l == Len(tree)
    IN IF l >= 2 /\ same_size(tree[l], tree[l - 1])
       THEN LET right_node == tree[l]
                left_node == tree[l - 1]
                size == len(left_node) + len(right_node)
                merged == Inner(0, size, <<left_node, right_node>>)
            IN Append(SubSeq(tree, 1, l - 2), merged)
       ELSE tree

\* treap.rs:166-178
RECURSIVE merge_loop(_)
merge_loop(tree) ==
    LET l == Len(tree)
    IN IF l >= 2 /\ same_size(tree[l], tree[l - 1])
       THEN LET right_node == tree[l]
                left_node == tree[l - 1]
                size == len(left_node) + len(right_node)
                merged == Inner(0, size, <<left_node, right_node>>)
            IN merge_loop(Append(SubSeq(tree, 1, l - 2), merged))
       ELSE tree

\* treap.rs:159-181: the fold over the chunks, <<tree, leaves>>
RECURSIVE fold_chunks(_, _, _)
fold_chunks(cs, tree, leaves) ==
    IF cs = <<>>
    THEN <<tree, leaves>>
    ELSE fold_chunks(Tail(cs), merge_loop(Append(tree, Leaf(Head(cs)))), leaves + 1)

\* mutant of build_treap: the two children of the new node exchanged
RECURSIVE build_treap_swapped(_, _)
build_treap_swapped(tree, right_node) ==
    IF tree = <<>>
    THEN right_node
    ELSE LET left_node == tree[Len(tree)]
             size == len(left_node) + len(right_node)
         IN build_treap_swapped(SubSeq(tree, 1, Len(tree) - 1),
                                Inner(0, size, <<right_node, left_node>>))

\* treap.rs:185-188
RECURSIVE build_treap(_, _)
build_treap(tree, right_node) ==
    IF tree = <<>>
    THEN right_node
    ELSE LET left_node == tree[Len(tree)]
             size == len(left_node) + len(right_node)
         IN build_treap(SubSeq(tree, 1, Len(tree) - 1),
                        Inner(0, size, <<left_node, right_node>>))

\* the node a path of directions leads to
RECURSIVE NodeAt(_, _)
NodeAt(node, path) ==
    IF path = <<>> THEN node ELSE NodeAt(Child(node, Head(path)), Tail(path))

\* treap.rs:207-216: the paths of the nodes in the order op visits them;
\* remaining is the queue (front first)
RECURSIVE breadth_first(_, _, _)
breadth_first(root_node, remaining, visited) ==
    IF remaining = <<>>
    THEN visited
    ELSE LET path == Head(remaining)
             node == NodeAt(root_node, path)
             rest == IF is_leaf(node)
                     THEN Tail(remaining)
                     ELSE Tail(remaining) \o <<Append(path, LEFT), Append(path, RIGHT)>>
         IN breadth_first(root_node, rest, Append(visited, path))

\* mutant of sort_unstable: the vector left as drawn
sort_skipped(s) == s

\* slice::sort_unstable
RECURSIVE SortInsert(_, _)
SortInsert(x, s) ==
    IF s = <<>> THEN <<x>>
    ELSE IF x <= Head(s) THEN <<x>> \o s
    ELSE <<Head(s)>> \o SortInsert(x, Tail(s))
RECURSIVE sort_unstable(_)
sort_unstable(s) == IF s = <<>> THEN <<>> ELSE SortInsert(Head(s), sort_unstable(Tail(s)))

\* the node with the priorities of its Inner nodes taken from assigned (a
\* function of the path)
RECURSIVE set_priorities(_, _, _)
set_priorities(node, path, assigned) ==
    IF is_leaf(node)
    THEN node
    ELSE Inner(assigned[path], node.size,
               <<set_priorities(Child(node, LEFT), Append(path, LEFT), assigned),
                 set_priorities(Child(node, RIGHT), Append(path, RIGHT), assigned)>>)

\* treap.rs:194-197: the k-th Inner node visited takes the k-th value popped
\* from the end of priorities; pop() on the empty vector makes unwrap() panic.
\* left is the number of priorities the pass leaves in the vector.
fix_priorities(root_node, priorities) ==
    LET order == breadth_first(root_node, << <<>> >>, <<>>)
        inner == SelectSeq(order, LAMBDA p : ~is_leaf(NodeAt(root_node, p)))
        n == Len(priorities)
        assigned == [p \in {inner[k] : k \in 1..Len(inner)} |->
                        priorities[n + 1 - (CHOOSE k \in 1..Len(inner) : inner[k] = p)]]
    IN IF Len(inner) > n
       THEN [node |-> root_node, outcome |-> PANIC, left |-> 0]
       ELSE [node |-> set_priorities(root_node, <<>>, assigned), outcome |-> OK,
             left |-> n - Len(inner)]

\* treap.rs:156-204.  randoms are the values random() returns, one per call.
from_iter(s, randoms) ==
    LET folded == fold_chunks(chunks(s, BLOCK_SIZE \div 2), <<>>, 0)
        tree == folded[1]
        leaves == folded[2]
    IN IF tree = <<>>
       THEN [node |-> new, outcome |-> OK]
       ELSE LET treap == build_treap(SubSeq(tree, 1, Len(tree) - 1), tree[Len(tree)])
                priorities == sort_unstable(SubSeq(randoms, 1, leaves - 1))
                fixed == fix_priorities(treap, priorities)
            IN IF fixed.outcome # OK
               THEN [node |-> treap, outcome |-> PANIC]
               ELSE IF ~is_valid(fixed.node, None)
                    THEN [node |-> fixed.node, outcome |-> PANIC]
                    ELSE [node |-> fixed.node, outcome |-> OK]

\* how many values from_iter draws for an input of n elements: leaves - 1
Draws(n) ==
    LET c == BLOCK_SIZE \div 2
        leaves == (n + c - 1) \div c
    IN IF leaves = 0 THEN 0 ELSE leaves - 1

-----------------------------------------------------------------------------
(* The state machine: one ITreap and the calls made on it. *)

VARIABLES
    root,        \* ITreap.root
    outcome,     \* how the last call ended: OK, PANIC or ABORT (process gone)
    hist,        \* the list the completed calls describe (list-insert semantics)
    validCalls,  \* every insert so far had index <= len()
    last         \* the last call: its name and, for a read, its arguments and result

vars == <<root, outcome, hist, validCalls, last>>

Call(op, i, j, res) == [op |-> op, i |-> i, j |-> j, res |-> res]

\* list-insert semantics: v at position i, later elements shifted right
ListInsert(l, i, v) == [k \in 1..(Len(l) + 1) |->
                          IF k <= i THEN l[k] ELSE IF k = i + 1 THEN v ELSE l[k - 1]]

\* the inputs of from_iter: every sequence over Values up to MaxBuild long, and
\* (as in tests::collect of lib.rs) the ranges 0..n up to MaxCollect
BuildInputs ==
    UNION {[1..n -> Values] : n \in 0..MaxBuild}
        \cup {[k \in 1..n |-> k - 1] : n \in 0..MaxCollect}

InitNew ==
    /\ root = new
    /\ outcome = OK
    /\ hist = <<>>
    /\ validCalls = TRUE
    /\ last = Call("new", 0, 0, None)

\* last.res is the vector priorities of treap.rs:190-192, sorted
InitFromIter ==
    \E s \in BuildInputs :
      \E randoms \in [1..Draws(Len(s)) -> Priorities] :
        LET r == from_iter(s, randoms)
        IN /\ root = r.node
           /\ outcome = r.outcome
           /\ hist = s
           /\ validCalls = TRUE
           /\ last = Call("from_iter", 0, 0, sort_unstable(randoms))

Init == InitNew \/ InitFromIter

\* When the next call is made.  replace_with_or_abort ends the process: no
\* call follows an abort (root then keeps the value the aborted call found,
\* nothing of the structure being left to observe).  A read changes nothing
\* but outcome and last, which every call overwrites, so the calls after a
\* read are the calls after the state the read was made in: every call is
\* taken from a state a constructor or a mutation left.
Alive ==
    /\ outcome # ABORT
    /\ last.op \in {"new", "from_iter", "insert", "push"}

\* treap.rs:54-56
Insert(index, element, rnd) ==
    /\ Alive
    /\ len(root) < MaxLen
    /\ LET r == insert(root, index, element, rnd)
       IN /\ root' = IF r.outcome = ABORT THEN root ELSE r.node
          /\ outcome' = r.outcome
          /\ hist' = IF r.outcome = OK /\ index <= Len(hist)
                     THEN ListInsert(hist, index, element)
                     ELSE hist
          /\ validCalls' = (validCalls /\ index <= treap_len(root))
          /\ last' = Call("insert", 0, 0, None)

\* treap.rs:73-75
Push(element, rnd) ==
    /\ Alive
    /\ len(root) < MaxLen
    /\ LET index == treap_len(root)
           r == insert(root, index, element, rnd)
       IN /\ root' = IF r.outcome = ABORT THEN root ELSE r.node
          /\ outcome' = r.outcome
          /\ hist' = IF r.outcome = OK THEN Append(hist, element) ELSE hist
          /\ validCalls' = validCalls
          /\ last' = Call("push", 0, 0, None)

\* treap.rs:14-16
Index(i) ==
    /\ Alive
    /\ LET r == get(root, i)
       IN /\ outcome' = IF r = None THEN PANIC ELSE OK
          /\ last' = Call("index", i, 0, r)
    /\ UNCHANGED <<root, hist, validCalls>>

\* treap.rs:22-24
IndexMut(i) ==
    /\ Alive
    /\ LET r == get_mut(root, i)
       IN /\ outcome' = IF r = None THEN PANIC ELSE OK
          /\ last' = Call("index_mut", i, 0, r)
    /\ UNCHANGED <<root, hist, validCalls>>

\* treap.rs:97-143
Between(lo, hi) ==
    /\ Alive
    /\ LET r == between(root, Range(lo, hi))
       IN /\ outcome' = r.outcome
          /\ last' = Call("between", lo, hi, r.out)
    /\ UNCHANGED <<root, hist, validCalls>>

\* treap.rs:83-85
Iter ==
    /\ Alive
    /\ LET r == iter(root)
       IN /\ outcome' = r.outcome
          /\ last' = Call("iter", 0, 0, r.out)
    /\ UNCHANGED <<root, hist, validCalls>>

\* treap.rs:78-80
LenCall ==
    /\ Alive
    /\ outcome' = OK
    /\ last' = Call("len", 0, 0, treap_len(root))
    /\ UNCHANGED <<root, hist, validCalls>>

\* the mutations, with iter() and len() to observe their effect
Next ==
    \/ \E i \in 0..(len(root) + 1), v \in Values, rnd \in Priorities : Insert(i, v, rnd)
    \/ \E v \in Values, rnd \in Priorities : Push(v, rnd)
    \/ Iter
    \/ LenCall

Spec == Init /\ [][Next]_vars

\* the reads, on the structures from_iter builds and push grows, and on those
\* an insert past the end leaves behind
NextRead ==
    \/ \E v \in Values, rnd \in Priorities : Push(v, rnd)
    \/ \E v \in Values, rnd \in Priorities : Insert(treap_len(root) + 1, v, rnd)
    \/ \E i \in 0..(len(root) + 1) : Index(i)
    \/ \E i \in 0..(len(root) + 1) : IndexMut(i)
    \/ \E lo \in 0..(len(root) + 1) : \E hi \in lo..(len(root) + 1) : Between(lo, hi)
    \/ \E lo \in 1..len(root) : Between(lo, lo - 1)
    \/ Iter
    \/ LenCall

SpecRead == Init /\ [][NextRead]_vars

\* the regression case of spec section 8: 0, 1, 2, ... pushed one at a time onto new()
PushNext(rnd) ==
    /\ Alive
    /\ len(root) < 10 * BLOCK_SIZE
    /\ LET element == treap_len(root)
           r == insert(root, treap_len(root), element, rnd)
       IN /\ root' = IF r.outcome = ABORT THEN root ELSE r.node
          /\ outcome' = r.outcome
          /\ hist' = IF r.outcome = OK THEN Append(hist, element) ELSE hist
          /\ validCalls' = validCalls
          /\ last' = Call("push", 0, 0, None)

NextPush ==
    \/ \E rnd \in Priorities : PushNext(rnd)
    \/ Iter
    \/ LenCall

SpecPush == InitNew /\ [][NextPush]_vars

\* the mutations on a structure created by new()
SpecNew == InitNew /\ [][Next]_vars

-----------------------------------------------------------------------------
(* What the properties are stated in. *)

\* the logical sequence: the leaves concatenated left to right
RECURSIVE Flatten(_)
Flatten(node) ==
    IF is_leaf(node)
    THEN node.block
    ELSE Flatten(Child(node, LEFT)) \o Flatten(Child(node, RIGHT))

\* every cached size is the sum of the children's lengths
RECURSIVE SizeInvariant(_)
SizeInvariant(node) ==
    \/ is_leaf(node)
    \/ /\ node.size = len(Child(node, LEFT)) + len(Child(node, RIGHT))
       /\ SizeInvariant(Child(node, LEFT))
       /\ SizeInvariant(Child(node, RIGHT))

\* no Inner node has a priority above its Inner parent's
RECURSIVE HeapInvariant(_)
HeapInvariant(node) ==
    \/ is_leaf(node)
    \/ \A d \in {LEFT, RIGHT} :
         /\ is_leaf(Child(node, d)) \/ Child(node, d).priority <= node.priority
         /\ HeapInvariant(Child(node, d))

\* the most Inner nodes on a path from the node to a leaf
RECURSIVE Height(_)
Height(node) ==
    IF is_leaf(node)
    THEN 0
    ELSE 1 + Max(Height(Child(node, LEFT)), Height(Child(node, RIGHT)))

\* the number of chunks from_iter cuts n elements into
NumChunks(n) == (n + (BLOCK_SIZE \div 2) - 1) \div (BLOCK_SIZE \div 2)

\* ceil(log2(n)) for n >= 1
CeilLog2(n) == CHOOSE k \in 0..n : 2^k >= n /\ (k = 0 \/ 2^(k - 1) < n)

Mutated == last.op \in {"insert", "push"}

\* the number of Inner nodes
RECURSIVE NumInner(_)
NumInner(node) ==
    IF is_leaf(node)
    THEN 0
    ELSE 1 + NumInner(Child(node, LEFT)) + NumInner(Child(node, RIGHT))

\* every Leaf holds at most BLOCK_SIZE elements, and at least one unless it
\* is the root
RECURSIVE LeafBound(_, _)
LeafBound(node, father) ==
    IF is_leaf(node)
    THEN Len(node.block) <= BLOCK_SIZE /\ (Len(node.block) >= 1 \/ father = None)
    ELSE \A d \in {LEFT, RIGHT} : LeafBound(Child(node, d), Some(node))

\* the priorities of the Inner nodes in breadth-first order
BfsPriorities(node) ==
    LET order == breadth_first(node, << <<>> >>, <<>>)
        inner == SelectSeq(order, LAMBDA p : ~is_leaf(NodeAt(node, p)))
    IN [k \in 1..Len(inner) |-> NodeAt(node, inner[k]).priority]

Reverse(s) == [k \in 1..Len(s) |-> s[Len(s) + 1 - k]]

\* the sequences under the nodes of a stack, concatenated bottom to top
RECURSIVE FlattenStack(_)
FlattenStack(tree) ==
    IF tree = <<>> THEN <<>> ELSE Flatten(Head(tree)) \o FlattenStack(Tail(tree))

\* treap.rs:159-181: the work stack once the first k chunks of the input s
\* have been pushed and merged
StackAfter(s, k) ==
    fold_chunks(SubSeq(chunks(s, BLOCK_SIZE \div 2), 1, k), <<>>, 0)[1]

\* node.rs:68-73: the Leaf the descent of insert(index, ..) ends at
RECURSIVE reached_leaf(_, _)
reached_leaf(node, index) ==
    IF is_leaf(node)
    THEN node
    ELSE LET left_size == len(Child(node, LEFT))
             direction == insert_direction(left_size, index)
         IN reached_leaf(Child(node, direction),
                         IF direction = LEFT THEN index ELSE index - left_size)

\* node.rs:66-77 followed along the path of insert(node, index, element, rnd):
\* at some Inner node of the path the recursive insert has returned, the child
\* it went into is (still) a Leaf, and the test of node.rs:75 asks for rotate
RECURSIVE promotes_leaf(_, _, _, _)
promotes_leaf(node, index, element, rnd) ==
    LET self == IF is_leaf(node) /\ len(node) = BLOCK_SIZE THEN divide(node, rnd) ELSE node
    IN IF is_leaf(self)
       THEN FALSE
       ELSE LET left_size == len(Child(self, LEFT))
                direction == insert_direction(left_size, index)
                remaining_index == IF direction = LEFT THEN index ELSE index - left_size
                r == insert(Child(self, direction), remaining_index, element, rnd)
            IN \/ promotes_leaf(Child(self, direction), remaining_index, element, rnd)
               \/ /\ r.outcome = OK
                  /\ is_leaf(r.node)
                  /\ needs_rotation(r.node, self)

-----------------------------------------------------------------------------
(* Node::rotate applied on its own. *)

\* The nodes rotate is handed: an Inner node with
\* consistent sizes and non-empty leaves, each child a Leaf or an Inner node
\* over two leaves, every priority free (at its call site, node.rs:75-76, the
\* heap order is broken between the node and the child just inserted into).
RotateBlocks == {<<0>>, <<1>>, <<0, 1>>}

RotateSubtrees ==
    {Leaf(b) : b \in RotateBlocks}
        \cup {Inner(p, Len(b1) + Len(b2), <<Leaf(b1), Leaf(b2)>>) :
                p \in Priorities, b1 \in RotateBlocks, b2 \in RotateBlocks}

RotateInputs ==
    {Inner(p, len(l) + len(r), <<l, r>>) :
        p \in Priorities, l \in RotateSubtrees, r \in RotateSubtrees}

\* hist is the sequence the node holds when rotate is called
InitRotate ==
    /\ root \in RotateInputs
    /\ outcome = OK
    /\ hist = Flatten(root)
    /\ validCalls = TRUE
    /\ last = Call("node", 0, 0, None)

\* node.rs:26-41, self.rotate(direction); last.res is len() before the call
Rotate(direction) ==
    /\ last.op = "node"
    /\ LET r == rotate(root, direction)
       IN /\ root' = IF r.outcome = ABORT THEN root ELSE r.node
          /\ outcome' = r.outcome
          /\ last' = Call("rotate", direction, 0, len(root))
    /\ UNCHANGED <<hist, validCalls>>

NextRotate == \E direction \in {LEFT, RIGHT} : Rotate(direction)

SpecRotate == InitRotate /\ [][NextRotate]_vars

-----------------------------------------------------------------------------
(* The claims. *)

\* C1 (as stated): after any sequence of valid insert and push calls on a
\* structure created by new(), every call has completed and iter() yields the
\* list that the same calls build with list-insert semantics.
C1_OrderPreservation ==
    (validCalls /\ Mutated) =>
        (outcome = OK /\ iter(root) = [out |-> hist, outcome |-> OK])

\* C2 (as stated): on a structure reached through valid calls, index(i) and
\* index_mut(i) with i < len() return the element iter() yields at position i.
C2_PositionalLookup ==
    (validCalls /\ last.op \in {"index", "index_mut"} /\ last.i < treap_len(root)) =>
        (outcome = OK /\ last.res = Some(iter(root).out[last.i + 1]))

\* C3 (as stated): every push of the run 0, 1, 2, ... onto new() completes,
\* and iter() then yields 0..len(), whatever priorities are drawn.
C3_PushRoundTrip ==
    (last.op = "push") =>
        /\ outcome = OK
        /\ iter(root) = [out |-> [k \in 1..treap_len(root) |-> k - 1], outcome |-> OK]

\* C4 (as stated): insert(i, v) with i > len() panics and leaves the structure
\* exactly as it was.
C4_AtomicFailure ==
    [][(\E i \in 0..(len(root) + 1), v \in Values, rnd \in Priorities :
            i > treap_len(root) /\ Insert(i, v, rnd))
        => (outcome' = PANIC /\ root' = root)]_vars

\* C5: on a structure satisfying the size invariant, between(lo..hi) with
\* 0 <= lo <= hi <= len() yields the elements at positions lo..hi-1 in order,
\* which are those iter() yields there, and iter() yields all len() elements.
C5_RangeCorrectness ==
    /\ (last.op = "between" /\ SizeInvariant(root)
            /\ last.i <= last.j /\ last.j <= treap_len(root)) =>
          /\ outcome = OK
          /\ last.res = SubSeq(Flatten(root), last.i + 1, last.j)
          /\ last.res = SubSeq(iter(root).out, last.i + 1, last.j)
    /\ (last.op = "iter" /\ SizeInvariant(root)) =>
          /\ outcome = OK
          /\ last.res = Flatten(root)
          /\ Len(last.res) = treap_len(root)

\* C5 witness: a range starting in the left subtree and ending in the right
\* subtree of an Inner root that has an Inner child, both ends cut inside.
C5_Witness ==
    /\ last.op = "between"
    /\ SizeInvariant(root)
    /\ Height(root) >= 2
    /\ 0 < last.i
    /\ last.i < len(Child(root, LEFT))
    /\ len(Child(root, LEFT)) < last.j
    /\ last.j < treap_len(root)
    /\ Len(last.res) = last.j - last.i

\* C6: from_iter(S) completes with len() = |S| and iter() yielding S, and for
\* the empty S the root is the empty Leaf of new().
C6_BuildRoundTrip ==
    (last.op = "from_iter") =>
        /\ outcome = OK
        /\ treap_len(root) = Len(hist)
        /\ iter(root) = [out |-> hist, outcome |-> OK]
        /\ (hist = <<>> => root = new)

\* C6 witness: an input cut into three chunks, the last one shorter.
C6_Witness ==
    /\ last.op = "from_iter"
    /\ outcome = OK
    /\ NumChunks(Len(hist)) = 3
    /\ Len(hist) % (BLOCK_SIZE \div 2) # 0
    /\ iter(root).out = hist

\* C7 (as stated): after every completed insert, push or from_iter, len() is
\* the number of elements inserted so far, the root's cached size or leaf
\* length, and the number of elements iter() yields.
C7_SizeConsistency ==
    (outcome = OK /\ (Mutated \/ last.op = "from_iter")) =>
        /\ treap_len(root) = Len(hist)
        /\ treap_len(root) = Len(Flatten(root))
        /\ iter(root).outcome = OK
        /\ Len(iter(root).out) = treap_len(root)

\* C8: after every completed insert or push, no Inner node has a priority
\* above its Inner parent's, and is_valid() holds.
C8_HeapInvariant ==
    (outcome = OK /\ Mutated) => (HeapInvariant(root) /\ is_valid(root, None))

\* C8 witness: a completed insert that divided a leaf below an Inner node
\* (no input over Values is long enough for from_iter to nest Inner nodes).
C8_Witness ==
    /\ outcome = OK
    /\ Mutated
    /\ Height(root) >= 2
    /\ \A k \in 1..Len(hist) : hist[k] \in Values
    /\ \E d \in {LEFT, RIGHT} :
         /\ ~is_leaf(Child(root, d))
         /\ len(Child(root, d)) = BLOCK_SIZE + 1

\* C9: index(i) and index_mut(i) with i >= len() get None and panic.
C9_OutOfRange ==
    (last.op \in {"index", "index_mut"} /\ last.i >= treap_len(root)) =>
        (last.res = None /\ outcome = PANIC)

\* C9 witness: index(len()) on an Inner root.
C9_Witness ==
    /\ last.op = "index"
    /\ last.i = treap_len(root)
    /\ ~is_leaf(root)
    /\ outcome = PANIC

\* C10: the tree from_iter builds from a non-empty input of L chunks has at
\* most ceil(log2(L)) Inner nodes on any path from the root to a leaf.
C10_Balanced ==
    (last.op = "from_iter" /\ hist # <<>>) =>
        Height(root) <= CeilLog2(NumChunks(Len(hist)))

\* C10 witness: five chunks, a path of three Inner nodes.
C10_Witness ==
    /\ last.op = "from_iter"
    /\ NumChunks(Len(hist)) = 5
    /\ Height(root) = 3

\* C11 (as stated): no insert or push with index <= len() on a reachable
\* structure calls rotate while the child the element went into is a Leaf
\* (so extract_content never panics on a Leaf).
C11_LeavesNeverGoUp ==
    [][~(\E i \in 0..len(root), v \in Values, rnd \in Priorities :
            /\ promotes_leaf(root, i, v, rnd)
            /\ Insert(i, v, rnd) \/ (i = treap_len(root) /\ Push(v, rnd)))]_vars

\* C12 (as stated): rotate(direction), in either direction, on an Inner node
\* whose child on the opposite side is Inner, leaves the left-to-right
\* concatenation of the leaves under the node and its element count unchanged.
C12_RotationPreservesSequence ==
    (last.op = "rotate" /\ outcome = OK) =>
        /\ Flatten(root) = hist
        /\ len(root) = last.res
        /\ Len(Flatten(root)) = last.res

\* C13 (as stated): after every completed insert, push or from_iter, every
\* Inner node's cached size is the sum of its children's lengths.
C13_SizeInvariant ==
    (outcome = OK /\ (Mutated \/ last.op = "from_iter")) => SizeInvariant(root)

\* C14: after every completed insert, push or from_iter every Leaf holds at
\* most BLOCK_SIZE elements and, unless it is the root, at least one; an
\* insert divides a Leaf exactly when the Leaf it reaches holds BLOCK_SIZE
\* elements, and divide puts the two halves of the block (BLOCK_SIZE / 2
\* elements each for an even BLOCK_SIZE) in two Leaves under a new Inner node.
C14_BlockBound ==
    /\ (outcome = OK /\ (Mutated \/ last.op = "from_iter")) => LeafBound(root, None)
    /\ Alive =>
          \A i \in 0..(len(root) + 1), v \in Values, rnd \in Priorities :
            LET leaf == reached_leaf(root, i)
                full == Len(leaf.block) = BLOCK_SIZE
                r == insert(root, i, v, rnd)
                d == divide(leaf, rnd)
            IN /\ NumInner(r.node) = NumInner(root) + (IF full THEN 1 ELSE 0)
               /\ full =>
                    /\ ~is_leaf(d) /\ is_leaf(Child(d, LEFT)) /\ is_leaf(Child(d, RIGHT))
                    /\ d.size = BLOCK_SIZE
                    /\ Child(d, LEFT).block \o Child(d, RIGHT).block = leaf.block
                    /\ len(Child(d, LEFT)) >= 1 /\ len(Child(d, RIGHT)) >= 1
                    /\ (BLOCK_SIZE % 2 = 0) =>
                          /\ len(Child(d, LEFT)) = BLOCK_SIZE \div 2
                          /\ len(Child(d, RIGHT)) = BLOCK_SIZE \div 2

\* C14 witness: a completed insert or push that divided the full root Leaf
\* of a structure grown from new().
C14_Witness ==
    /\ outcome = OK
    /\ Mutated
    /\ ~is_leaf(root)
    /\ treap_len(root) = BLOCK_SIZE + 1
    /\ NumInner(root) = 1
    /\ LeafBound(root, None)
    /\ {len(Child(root, LEFT)), len(Child(root, RIGHT))}
          = {BLOCK_SIZE \div 2, BLOCK_SIZE - (BLOCK_SIZE \div 2) + 1}

\* C15 (as stated): two executions that make the same valid calls and differ
\* only in the values random() returns end every call the same way and show
\* the same iter(), len() and index(i).  Stated for the two executions that
\* share their past and differ in the value drawn during the next insert.
C15_PrioritiesNeverAffectData ==
    (Alive /\ validCalls) =>
        \A i \in 0..len(root), v \in Values, rnd1 \in Priorities, rnd2 \in Priorities :
          LET r1 == insert(root, i, v, rnd1)
              r2 == insert(root, i, v, rnd2)
          IN /\ r1.outcome = r2.outcome
             /\ r1.outcome = OK =>
                  /\ iter(r1.node) = iter(r2.node)
                  /\ treap_len(r1.node) = treap_len(r2.node)
                  /\ \A k \in 0..treap_len(r1.node) : get(r1.node, k) = get(r2.node, k)

\* C16: for a non-empty input of L chunks, the tree the merge and fold steps
\* build has L - 1 Inner nodes; the breadth-first pass completes, gives the
\* Inner nodes the L - 1 sorted priorities, largest first, with none left
\* over (so no node keeps the placeholder); and the tree satisfies the heap
\* invariant and is_valid().
C16_PriorityPass ==
    (last.op = "from_iter" /\ hist # <<>>) =>
        LET L == NumChunks(Len(hist))
            priorities == last.res
            folded == fold_chunks(chunks(hist, BLOCK_SIZE \div 2), <<>>, 0)
            tree == folded[1]
            treap == build_treap(SubSeq(tree, 1, Len(tree) - 1), tree[Len(tree)])
            fixed == fix_priorities(treap, priorities)
        IN /\ outcome = OK
           /\ folded[2] = L
           /\ Len(priorities) = L - 1
           /\ NumInner(treap) = L - 1
           /\ NumInner(root) = L - 1
           /\ fixed.outcome = OK
           /\ fixed.left = 0
           /\ fixed.node = root
           /\ BfsPriorities(root) = Reverse(priorities)
           /\ HeapInvariant(root)
           /\ is_valid(root, None)

\* C16 witness: five chunks, four Inner nodes, the priorities drawn neither
\* all equal nor the placeholder 0.
C16_Witness ==
    /\ last.op = "from_iter"
    /\ outcome = OK
    /\ NumChunks(Len(hist)) = 5
    /\ NumInner(root) = 4
    /\ root.priority = U64_MAX
    /\ \E k \in 1..4 : BfsPriorities(root)[k] < U64_MAX
    /\ \A k \in 1..4 : BfsPriorities(root)[k] > 0

\* C17: in from_iter, after the merge loop that follows each chunk push, the
\* element counts of the nodes on the work stack strictly decrease from
\* bottom to top (len() being the number of elements held), and the stack
\* entries concatenated bottom to top are the input consumed so far.
C17_WorkStack ==
    (last.op = "from_iter") =>
        \A k \in 1..NumChunks(Len(hist)) :
          LET tree == StackAfter(hist, k)
              consumed == Min(k * (BLOCK_SIZE \div 2), Len(hist))
          IN /\ \A j \in 1..(Len(tree) - 1) : len(tree[j]) > len(tree[j + 1])
             /\ FlattenStack(tree) = SubSeq(hist, 1, consumed)
             /\ \A j \in 1..Len(tree) : SizeInvariant(tree[j])

\* C17 witness: seven chunks, the last one shorter: three nodes are left on
\* the stack, and after the fourth chunk two merges in a row left one.
C17_Witness ==
    /\ last.op = "from_iter"
    /\ NumChunks(Len(hist)) = 7
    /\ Len(hist) % (BLOCK_SIZE \div 2) # 0
    /\ Len(StackAfter(hist, 7)) = 3
    /\ Len(StackAfter(hist, 4)) = 1
    /\ Height(StackAfter(hist, 4)[1]) = 2

\* C18 (as stated): is_valid() is false for every structure in which some
\* Inner node's cached size is not the sum of its children's lengths, and
\* for every structure in which some Inner node has a priority above its
\* Inner parent's.
C18_ValidityCoverage ==
    is_valid(root, None) => (SizeInvariant(root) /\ HeapInvariant(root))

=============================================================================
